---- MODULE Spec2Model ----
(***************************************************************************)
(* A model of the Project Scopes extension (src/extension.js, the second   *)
(* ScopeManager of the file, lines 906-1334, and the configuration         *)
(* listener of ScopeTreeDataProvider, lines 1343-1350), and of the         *)
(* visibility filter of ScopeFileSystemProvider (src/unnamed/part_001),    *)
(* with the listings built on them: the folder enumeration of the          *)
(* ScopeManager, readDirectory of ScopeFileSystemProvider and getChildren  *)
(* of the two tree data providers.  Paths are POSIX paths.                 *)
(*                                                                         *)
(* Every command of the extension is an async function.  A command that    *)
(* has been invoked and has not returned yet is a "flow"; one action of    *)
(* the model is the code a flow runs between two awaits (a prompt being    *)
(* answered, a configuration write being acknowledged).  Strings are       *)
(* sequences of one-character strings, so that String.trim() and the       *)
(* empty string are what they are in the code.                             *)
(*                                                                         *)
(* What the editor does is modelled by its API contract:                   *)
(*  - showInputBox resolves with undefined (cancel) or with a value for    *)
(*    which validateInput returned null; a value with a validation message *)
(*    is not accepted and the box stays open;                              *)
(*  - config.update writes the value or rejects; a write that changes the  *)
(*    stored value raises onDidChangeConfiguration, which the editor       *)
(*    delivers to the listener before it acknowledges the write: the flow  *)
(*    that wrote resumes after the listener has run, other flows may run   *)
(*    before it;                                                           *)
(*  - null and "" (the declared default of projectScopes.activeScope) are  *)
(*    both falsy and are modelled by the one value NoScope, the empty      *)
(*    string.                                                              *)
(***************************************************************************)
EXTENDS Integers, Sequences, FiniteSets, TLC

VARIABLES
    scopes,       \* this.scopes: scope name -> scope object
    activeScope,  \* this.activeScope
    statusText,   \* this.statusBarItem.text, without the "$(folder) " prefix
    cfgScopes,    \* workspace setting projectScopes.scopes
    cfgActive,    \* workspace setting projectScopes.activeScope
    cfgEvent,     \* the flows whose write raised an onDidChangeConfiguration not yet delivered
    clock,        \* the wall clock read by new Date()
    invoked,      \* the commands invoked so far
    flows,        \* the command invocations in progress
    held,         \* the object a reader got from getScopes() and still holds
    shown,        \* the last call of shouldShowEntry and what it returned
    disk,         \* the directories of the disk and those that cannot be read
    workspaceFolders,  \* vscode.workspace.workspaceFolders, as their fsPath
    listed,       \* the last listing asked for and what it returned
    reading       \* the root listing of the file explorer suspended at an await

vars ==
    <<scopes, activeScope, statusText, cfgScopes, cfgActive, cfgEvent, clock, invoked, flows,
      held, shown, disk, workspaceFolders, listed, reading>>

store == <<scopes, activeScope, statusText, cfgScopes, cfgActive, cfgEvent, clock>>

\* what the readers of the ScopeManager hold
readers == <<held, shown, disk, workspaceFolders, listed, reading>>

-----------------------------------------------------------------------------
(* Bounds of the model. *)

\* command invocations that may be in progress at once
NFlows == 2

\* commands invoked in one run of the extension
MaxCommands == 3

\* the clock stops here: at most MaxClock scopes are ever created
MaxClock == 2

Flows == 1..NFlows

-----------------------------------------------------------------------------
(* Values. *)

\* an optional value: undefined/null, or a value
None == <<>>

Some(x) == <<x>>

\* the falsy activeScope (null, or the setting's default "")
NoScope == <<>>

\* "No Scope", the status bar text when no scope is active
NoScopeText == <<"N", "o", " ", "S", "c", "o", "p", "e">>

\* a property every JavaScript object inherits from Object.prototype
Constructor == <<"c", "o", "n", "s", "t", "r", "u", "c", "t", "o", "r">>

ProtoNames == {Constructor}

\* what a user may type into a name input box
NameInputs == {<<>>, <<" ">>, <<"a">>, <<"b">>, <<" ", "a">>, Constructor}

\* what a user may type into the description input box
DescriptionInputs == {<<>>, <<"d">>}

\* the folders getAllWorkspaceFolders offers, sorted
AllFolders == <<"src", "tests">>

RECURSIVE PickFrom(_, _)
\* selected.map((item) => item.label): the picked items, in the order offered
PickFrom(i, picked) ==
    IF i > Len(AllFolders) THEN <<>>
    ELSE (IF i \in picked THEN <<AllFolders[i]>> ELSE <<>>) \o PickFrom(i + 1, picked)

\* what selectFolders can return: null, or the labels of the picked items
Selections == {None} \cup {Some(PickFrom(1, picked)) : picked \in SUBSET (1..Len(AllFolders))}

\* {}: an object without folders, created or description
EmptyObj == [folders |-> None, created |-> None, description |-> None]

EmptyScopes == [n \in {} |-> EmptyObj]

-----------------------------------------------------------------------------
(* Strings. *)

IsSpace(c) == c = " "

RECURSIVE TrimStart(_)
TrimStart(s) ==
    IF s = <<>> THEN <<>>
    ELSE IF IsSpace(Head(s)) THEN TrimStart(Tail(s)) ELSE s

RECURSIVE TrimEnd(_)
TrimEnd(s) ==
    IF s = <<>> THEN <<>>
    ELSE IF IsSpace(s[Len(s)]) THEN TrimEnd(SubSeq(s, 1, Len(s) - 1)) ELSE s

\* String.prototype.trim
Trim(s) == TrimEnd(TrimStart(s))

-----------------------------------------------------------------------------
(* The scope collection, a plain JavaScript object. *)

\* this.scopes[name] is truthy: an own entry, or a property inherited from
\* Object.prototype
Truthy(sc, name) == name \in DOMAIN sc \/ name \in ProtoNames

\* { ...this.scopes[name] }: spreading undefined gives {}
Spread(sc, name) == IF name \in DOMAIN sc THEN sc[name] ELSE EmptyObj

\* this.scopes[name] = obj
Put(sc, name, obj) == (name :> obj) @@ sc

\* delete this.scopes[name]
Remove(sc, name) == [m \in DOMAIN sc \ {name} |-> sc[m]]

\* a validateInput that does not look at value.trim()
validateUntrimmed(value, sc) ==
    IF Truthy(sc, value) THEN Some("Scope name already exists") ELSE None

\* validateInput of createScope: the message shown, None when the value is valid
validateCreate(value, sc) ==
    IF Trim(value) = <<>> THEN Some("Scope name cannot be empty")
    ELSE IF Truthy(sc, value) THEN Some("Scope name already exists")
    ELSE None

\* a validateInput that treats the scope's own name as taken
validateRenameStrict(value, oldName, sc) ==
    IF Trim(value) = <<>> THEN Some("Scope name cannot be empty")
    ELSE IF Truthy(sc, value) THEN Some("Scope name already exists")
    ELSE None

\* a validateInput that does not look the name up
validateRenameAny(value, oldName, sc) ==
    IF Trim(value) = <<>> THEN Some("Scope name cannot be empty") ELSE None

\* validateInput of editScopeName
validateRename(value, oldName, sc) ==
    IF Trim(value) = <<>> THEN Some("Scope name cannot be empty")
    ELSE IF value # oldName /\ Truthy(sc, value) THEN Some("Scope name already exists")
    ELSE None

\* a check that lets an empty selection through: if (!folders) return
noFoldersCancelled(sel) == sel = None

\* createScope: if (!folders || folders.length === 0) return
noFoldersCreate(sel) == sel = None \/ Len(sel[1]) = 0

\* editScopeFolders: if (!folders) return
noFoldersEdit(sel) == sel = None

\* createScope: this.scopes[scopeName] = { folders, created, description: "" }
createEntry(sc, name, folders, now) ==
    Put(sc, name, [folders |-> Some(folders), created |-> Some(now), description |-> Some(<<>>)])

\* a rename that builds the new entry from the folders and description alone
renameFresh(sc, oldName, newName) ==
    Remove(Put(sc, newName, [Spread(sc, oldName) EXCEPT !.created = None]), oldName)

\* a rename that does not delete the old name
renameCopy(sc, oldName, newName) == Put(sc, newName, Spread(sc, oldName))

\* editScopeName: this.scopes[newName] = { ...this.scopes[oldName] }; delete this.scopes[oldName]
renameEntry(sc, oldName, newName) == Remove(Put(sc, newName, Spread(sc, oldName)), oldName)

\* editScopeName: if (this.activeScope === oldName) this.activeScope = newName
renameActive(act, oldName, newName) == IF act = oldName THEN newName ELSE act

\* a folder edit that stores a new object holding the folders alone
replaceFoldersFresh(sc, name, folders) ==
    Put(sc, name, [EmptyObj EXCEPT !.folders = Some(folders)])

\* editScopeFolders: this.scopes[scopeName] = { ...this.scopes[scopeName], folders }
replaceFolders(sc, name, folders) ==
    Put(sc, name, [Spread(sc, name) EXCEPT !.folders = Some(folders)])

\* editScopeDescription: this.scopes[scopeName] = { ...this.scopes[scopeName], description }
setDescription(sc, name, description) ==
    Put(sc, name, [Spread(sc, name) EXCEPT !.description = Some(description)])

\* a delete that clears the active scope whichever scope is deleted
deleteActiveAlways(act, name) == NoScope

\* deleteScope: if (this.activeScope === scopeName) this.activeScope = null
deleteActive(act, name) == IF act = name THEN NoScope ELSE act

\* updateStatusBar: the text set
statusBarText(act, sc) == IF act # NoScope /\ Truthy(sc, act) THEN act ELSE NoScopeText

-----------------------------------------------------------------------------
(* Flows: the command invocations in progress. *)

\* the names a tree item or a quick pick entry can carry: names that can be keys
ItemNames == {v \in NameInputs : validateCreate(v, EmptyScopes) = None}

\* A flow: op is the command, method the ScopeManager method now running, pc the
\* await it is suspended at.  name is scopeName/oldName; items the entries of the
\* quick pick it shows; msg the validation message its input box shows.  The
\* rest records what the flow did: arg the new name of a rename, wasActive
\* whether its scope was the active one when it renamed or deleted it, fired the
\* _onScopeChanged.fire() calls, writes the acknowledged config.update calls,
\* res how it ended.
Idle ==
    [op |-> "none", method |-> "none", pc |-> "idle", name |-> <<>>, items |-> {},
     msg |-> None, arg |-> <<>>, wasActive |-> FALSE, fired |-> 0, writes |-> 0,
     res |-> "none"]

Set(f, r) == flows' = [flows EXCEPT ![f] = r]

\* a command is invoked; alone says whether commands wait for one another
invoke(f, alone) ==
    /\ flows[f].pc = "idle"
    /\ alone => \A g \in Flows : flows[g].pc = "idle"
    /\ invoked < MaxCommands
    /\ invoked' = invoked + 1
    /\ UNCHANGED readers

\* the method returns (or throws) and the command with it
Return(r, res) == [r EXCEPT !.pc = "done", !.res = res, !.msg = None, !.items = {}]

\* _onScopeChanged.fire()
fire(r) == [r EXCEPT !.fired = @ + 1]

\* a saveScopes that catches the error of the first write and goes on
saveScopesSwallow(f, r, ok) ==
    /\ IF ok
         THEN /\ cfgScopes' = scopes'
              /\ cfgEvent' = IF cfgScopes # scopes' THEN cfgEvent \cup {f} ELSE cfgEvent
              /\ Set(f, [r EXCEPT !.pc = "save1", !.writes = @ + 1, !.msg = None, !.items = {}])
         ELSE /\ UNCHANGED <<cfgScopes, cfgEvent>>
              /\ Set(f, [r EXCEPT !.pc = "save1", !.msg = None, !.items = {}])
    /\ UNCHANGED cfgActive

\* a saveScopes that fires the notification before its first write
saveScopesFiresFirst(f, r, ok) ==
    /\ IF ok
         THEN /\ cfgScopes' = scopes'
              /\ cfgEvent' = IF cfgScopes # scopes' THEN cfgEvent \cup {f} ELSE cfgEvent
              /\ Set(f, [fire(r) EXCEPT !.pc = "save1", !.writes = @ + 1, !.msg = None,
                                         !.items = {}])
         ELSE /\ UNCHANGED <<cfgScopes, cfgEvent>>
              /\ Set(f, Return(fire(r), "error"))
    /\ UNCHANGED cfgActive

\* saveScopes, to its first await: config.update("scopes", this.scopes).  The
\* caller has set scopes' and activeScope'.
saveScopes(f, r, ok) ==
    /\ IF ok
         THEN /\ cfgScopes' = scopes'
              /\ cfgEvent' = IF cfgScopes # scopes' THEN cfgEvent \cup {f} ELSE cfgEvent
              /\ Set(f, [r EXCEPT !.pc = "save1", !.writes = @ + 1, !.msg = None, !.items = {}])
         ELSE /\ UNCHANGED <<cfgScopes, cfgEvent>>
              /\ Set(f, Return(r, "error"))
    /\ UNCHANGED cfgActive

\* a saveScopes that does not write the active scope
saveActiveScopeSkip(f, ok) ==
    /\ flows[f].pc = "save1"
    /\ f \notin cfgEvent
    /\ UNCHANGED <<invoked, readers>>
    /\ Set(f, [flows[f] EXCEPT !.pc = "save2", !.writes = @ + 1])
    /\ UNCHANGED <<scopes, activeScope, statusText, cfgScopes, cfgActive, cfgEvent, clock>>

\* saveScopes, after the first write: config.update("activeScope", this.activeScope)
saveActiveScope(f, ok) ==
    /\ flows[f].pc = "save1"
    /\ f \notin cfgEvent
    /\ UNCHANGED <<invoked, readers>>
    /\   IF ok
           THEN /\ cfgActive' = activeScope
                /\ cfgEvent' = IF cfgActive # activeScope THEN cfgEvent \cup {f} ELSE cfgEvent
                /\ Set(f, [flows[f] EXCEPT !.pc = "save2", !.writes = @ + 1])
           ELSE /\ UNCHANGED <<cfgActive, cfgEvent>>
                /\ Set(f, Return(flows[f], "error"))
    /\ UNCHANGED <<scopes, activeScope, statusText, cfgScopes, clock>>

\* the methods that call this._onScopeChanged.fire() after saveScopes
firesAfterSave(method) == method # "editScopeDescription"

\* the methods that call this.updateStatusBar() after saveScopes
updatesStatusBar(method) == method \in {"setActiveScope", "clearActiveScope"}

\* what a method does once saveScopes has returned
afterSave(f) ==
    /\ flows[f].pc = "save2"
    /\ f \notin cfgEvent
    /\ UNCHANGED <<invoked, readers>>
    /\ LET r == flows[f]
           n == IF firesAfterSave(r.method) THEN fire(r) ELSE r
       IN  /\ statusText' = IF updatesStatusBar(r.method)
                              THEN statusBarText(activeScope, scopes)
                              ELSE statusText
           /\ IF r.method = "createScope"
                THEN Set(f, [n EXCEPT !.pc = "activate"])
                ELSE Set(f, Return(n, "ok"))
    /\ UNCHANGED <<scopes, activeScope, cfgScopes, cfgActive, cfgEvent, clock>>

\* a setActiveScope without the test of this.scopes[scopeName]
setActiveScopeUnchecked(f, r, scopeName, ok) ==
    /\ activeScope' = scopeName
    /\ UNCHANGED <<scopes, statusText, clock>>
    /\ saveScopes(f, [r EXCEPT !.method = "setActiveScope"], ok)

\* setActiveScope(scopeName), to its first await
setActiveScope(f, r, scopeName, ok) ==
    IF ~Truthy(scopes, scopeName)
      THEN /\ Set(f, Return(r, "notfound"))
           /\ UNCHANGED store
      ELSE /\ activeScope' = scopeName
           /\ UNCHANGED <<scopes, statusText, clock>>
           /\ saveScopes(f, [r EXCEPT !.method = "setActiveScope"], ok)

\* a clearActiveScope without the test of this.activeScope
clearActiveAlways(f, r, ok) ==
    /\ activeScope' = NoScope
    /\ UNCHANGED <<scopes, statusText, clock>>
    /\ saveScopes(f, [r EXCEPT !.method = "clearActiveScope"], ok)

\* clearActiveScope(), to its first await
clearActive(f, r, ok) ==
    IF activeScope = NoScope
      THEN /\ Set(f, Return(r, "noop"))
           /\ UNCHANGED store
      ELSE /\ activeScope' = NoScope
           /\ UNCHANGED <<scopes, statusText, clock>>
           /\ saveScopes(f, [r EXCEPT !.method = "clearActiveScope"], ok)

-----------------------------------------------------------------------------
(* createScope *)

\* the command is invoked: showInputBox
createScope(f, alone) ==
    /\ invoke(f, alone)
    /\ Set(f, [Idle EXCEPT !.op = "createScope", !.method = "createScope", !.pc = "name"])
    /\ UNCHANGED store

\* the input box is answered: undefined, or a value the user submits
createName(f, answer) ==
    /\ flows[f].pc = "name"
    /\ UNCHANGED <<invoked, readers>>
    /\ LET r == flows[f] IN
         IF answer = None THEN Set(f, Return(r, "cancelled"))
         ELSE IF validateCreate(answer[1], scopes) # None
           THEN Set(f, [r EXCEPT !.msg = validateCreate(answer[1], scopes)])
         ELSE IF answer[1] = <<>> THEN Set(f, Return(r, "cancelled"))
         ELSE Set(f, [r EXCEPT !.name = answer[1], !.pc = "folders", !.msg = None])
    /\ UNCHANGED store

\* selectFolders returns: the scope is stored and saveScopes starts
createFolders(f, sel, ok) ==
    /\ flows[f].pc = "folders"
    /\ UNCHANGED <<invoked, readers>>
    /\ flows[f].method = "createScope"
    /\ LET r == flows[f] IN
         IF noFoldersCreate(sel)
           THEN /\ Set(f, Return(r, "nofolders"))
                /\ UNCHANGED store
           ELSE /\ clock < MaxClock
                /\ clock' = clock + 1
                /\ scopes' = createEntry(scopes, r.name, sel[1], clock + 1)
                /\ UNCHANGED <<activeScope, statusText>>
                /\ saveScopes(f, r, ok)

\* "Activate this scope now?" is answered
createActivate(f, answer, ok) ==
    /\ flows[f].pc = "activate"
    /\ UNCHANGED <<invoked, readers>>
    /\ IF answer = "Yes"
         THEN setActiveScope(f, flows[f], flows[f].name, ok)
         ELSE /\ Set(f, Return(flows[f], "ok"))
              /\ UNCHANGED store

-----------------------------------------------------------------------------
(* editScope, deleteScope, switchScope, clearActiveScope *)

\* editScope/deleteScope: if (!scopeName || !this.scopes[scopeName]) return
chosen(f, r, scopeName, next) ==
    /\ IF scopeName = <<>> \/ ~Truthy(scopes, scopeName)
         THEN Set(f, Return(r, "notfound"))
         ELSE Set(f, [r EXCEPT !.name = scopeName, !.pc = next, !.items = {}])
    /\ UNCHANGED store

\* the command is invoked on a tree item, or without one: quick pick of the scopes
start(f, op, item, next, alone) ==
    /\ invoke(f, alone)
    /\ LET r == [Idle EXCEPT !.op = op, !.method = op] IN
         IF item # None THEN chosen(f, r, item[1], next)
         ELSE /\ IF DOMAIN scopes = {}
                   THEN Set(f, Return(r, "noscopes"))
                   ELSE Set(f, [r EXCEPT !.pc = "pick", !.items = DOMAIN scopes])
              /\ UNCHANGED store

editScope(f, item, alone) == start(f, "editScope", item, "action", alone)

deleteScope(f, item, alone) == start(f, "deleteScope", item, "confirm", alone)

\* "Select scope to edit" / "Select scope to delete" is answered
pickScope(f, answer) ==
    /\ flows[f].pc = "pick"
    /\ UNCHANGED <<invoked, readers>>
    /\ flows[f].op \in {"editScope", "deleteScope"}
    /\ answer \in {None} \cup {Some(n) : n \in flows[f].items}
    /\ chosen(f, flows[f], IF answer = None THEN <<>> ELSE answer[1],
              IF flows[f].op = "editScope" THEN "action" ELSE "confirm")

\* "What would you like to edit?" is answered
editAction(f, answer) ==
    /\ flows[f].pc = "action"
    /\ UNCHANGED <<invoked, readers>>
    /\ LET r == flows[f] IN
         IF answer = "undefined" THEN Set(f, Return(r, "cancelled"))
         ELSE IF answer = "Edit Name"
           THEN Set(f, [r EXCEPT !.method = "editScopeName", !.pc = "newName"])
         ELSE IF r.name \notin DOMAIN scopes
           \* this.scopes[scopeName].folders / .description of undefined: TypeError
           THEN Set(f, Return(r, "error"))
         ELSE IF answer = "Edit Folders"
           THEN Set(f, [r EXCEPT !.method = "editScopeFolders", !.pc = "folders"])
         ELSE Set(f, [r EXCEPT !.method = "editScopeDescription", !.pc = "description"])
    /\ UNCHANGED store

\* editScopeName: the input box is answered
editScopeName(f, answer, ok) ==
    /\ flows[f].pc = "newName"
    /\ UNCHANGED <<invoked, readers>>
    /\ LET r == flows[f] IN
         IF answer = None
           THEN /\ Set(f, Return(r, "cancelled"))
                /\ UNCHANGED store
         ELSE IF validateRename(answer[1], r.name, scopes) # None
           THEN /\ Set(f, [r EXCEPT !.msg = validateRename(answer[1], r.name, scopes)])
                /\ UNCHANGED store
         ELSE IF answer[1] = <<>> \/ answer[1] = r.name
           THEN /\ Set(f, Return(r, "noop"))
                /\ UNCHANGED store
         ELSE /\ scopes' = renameEntry(scopes, r.name, answer[1])
              /\ activeScope' = renameActive(activeScope, r.name, answer[1])
              /\ UNCHANGED <<statusText, clock>>
              /\ saveScopes(f, [r EXCEPT !.arg = answer[1],
                                         !.wasActive = (activeScope = r.name)], ok)

\* editScopeFolders: selectFolders returns
editScopeFolders(f, sel, ok) ==
    /\ flows[f].pc = "folders"
    /\ UNCHANGED <<invoked, readers>>
    /\ flows[f].method = "editScopeFolders"
    /\ LET r == flows[f] IN
         IF noFoldersEdit(sel)
           THEN /\ Set(f, Return(r, "cancelled"))
                /\ UNCHANGED store
           ELSE /\ scopes' = replaceFolders(scopes, r.name, sel[1])
                /\ UNCHANGED <<activeScope, statusText, clock>>
                /\ saveScopes(f, r, ok)

\* editScopeDescription: the input box is answered
editScopeDescription(f, answer, ok) ==
    /\ flows[f].pc = "description"
    /\ UNCHANGED <<invoked, readers>>
    /\ LET r == flows[f] IN
         IF answer = None
           THEN /\ Set(f, Return(r, "cancelled"))
                /\ UNCHANGED store
           ELSE /\ scopes' = setDescription(scopes, r.name, answer[1])
                /\ UNCHANGED <<activeScope, statusText, clock>>
                /\ saveScopes(f, r, ok)

\* deleteScope: "Are you sure you want to delete scope ...?" is answered
deleteConfirm(f, answer, ok) ==
    /\ flows[f].pc = "confirm"
    /\ UNCHANGED <<invoked, readers>>
    /\ LET r == flows[f] IN
         IF answer # "Delete"
           THEN /\ Set(f, Return(r, "cancelled"))
                /\ UNCHANGED store
           ELSE /\ scopes' = Remove(scopes, r.name)
                /\ activeScope' = deleteActive(activeScope, r.name)
                /\ UNCHANGED <<statusText, clock>>
                /\ saveScopes(f, [r EXCEPT !.wasActive = (activeScope = r.name)], ok)

\* switchScope: the command is invoked
switchScope(f, alone) ==
    /\ invoke(f, alone)
    /\ LET r == [Idle EXCEPT !.op = "switchScope", !.method = "switchScope"] IN
         IF DOMAIN scopes = {}
           THEN Set(f, Return(r, "noscopes"))
           ELSE Set(f, [r EXCEPT !.pc = "pick", !.items = DOMAIN scopes \cup {NoScope}])
    /\ UNCHANGED store

\* switchScope: "Select a scope to activate" is answered; the first item clears
switchPick(f, answer, ok) ==
    /\ flows[f].pc = "pick"
    /\ UNCHANGED <<invoked, readers>>
    /\ flows[f].op = "switchScope"
    /\ answer \in {None} \cup {Some(n) : n \in flows[f].items}
    /\ LET r == [flows[f] EXCEPT !.items = {}] IN
         IF answer = None
           THEN /\ Set(f, Return(r, "cancelled"))
                /\ UNCHANGED store
         ELSE IF answer[1] # NoScope THEN setActiveScope(f, r, answer[1], ok)
         ELSE clearActive(f, r, ok)

\* the clearScope command
clearActiveScope(f, ok, alone) ==
    /\ invoke(f, alone)
    /\ clearActive(f, [Idle EXCEPT !.op = "clearActiveScope", !.method = "clearActiveScope"], ok)

\* the command's handler returns: treeDataProvider.refresh()
finish(f) ==
    /\ flows[f].pc = "done"
    /\ UNCHANGED <<invoked, readers>>
    /\ Set(f, Idle)
    /\ UNCHANGED store

-----------------------------------------------------------------------------
(* The configuration listener. *)

\* this.scopes = config.get("scopes", {}) makes this.scopes another object: the
\* object a reader holds keeps the content it has, now
Detached(h, content) == IF h.live THEN [h EXCEPT !.live = FALSE, !.last = content] ELSE h

\* a loadScopes that leaves the status bar alone
loadScopesSilent ==
    /\ cfgEvent # {}
    /\ cfgEvent' = {}
    /\ scopes' = cfgScopes
    /\ activeScope' = cfgActive
    /\ held' = IF held = None THEN None ELSE Some(Detached(held[1], scopes))
    /\ UNCHANGED <<statusText, cfgScopes, cfgActive, clock, invoked, flows, shown, disk,
                   workspaceFolders, listed, reading>>

\* onDidChangeConfiguration: this.scopeManager.loadScopes(); this.refresh()
loadScopes ==
    /\ cfgEvent # {}
    /\ cfgEvent' = {}
    /\ scopes' = cfgScopes
    /\ activeScope' = cfgActive
    /\ statusText' = statusBarText(cfgActive, cfgScopes)
    /\ held' = IF held = None THEN None ELSE Some(Detached(held[1], scopes))
    /\ UNCHANGED <<cfgScopes, cfgActive, clock, invoked, flows, shown, disk, workspaceFolders,
                   listed, reading>>

-----------------------------------------------------------------------------
(* Readers of the collection. *)

\* getScopes() { return this.scopes }: a reader (getChildren of the file
\* explorer) takes what getScopes returns and keeps it across its awaits.  at
\* is the content when it was taken, live whether this.scopes still is that
\* object, last the content the object was left with when it stopped being it.
getScopes ==
    /\ held = None
    /\ held' = Some([at |-> scopes, live |-> TRUE, last |-> scopes])
    /\ UNCHANGED <<store, invoked, flows, shown, disk, workspaceFolders, listed, reading>>

\* the reader returns
dropScopes ==
    /\ held # None
    /\ held' = None
    /\ UNCHANGED <<store, invoked, flows, shown, disk, workspaceFolders, listed, reading>>

\* the content of the object the reader holds: the methods assign and delete
\* the properties of this.scopes in place
Seen(h) == IF h.live THEN scopes ELSE h.last

-----------------------------------------------------------------------------
(* The visibility filter of ScopeFileSystemProvider (src/unnamed/part_001). *)

\* relative paths of the workspace's entries, with either separator
PSrc == <<"s", "r", "c">>

PSrcApi == <<"s", "r", "c", "/", "a", "p", "i">>

PSrcApiOld == <<"s", "r", "c", "/", "a", "p", "i", "-", "o", "l", "d">>

PSrcApiV1 == <<"s", "r", "c", "/", "a", "p", "i", "/", "v", "1">>

PSrcApiWin == <<"s", "r", "c", "\\", "a", "p", "i">>

PLib == <<"l", "i", "b">>

PS == <<"s">>

\* the relativePath of an entry _readDirectory asks about
Paths == {PSrc, PSrcApi, PSrcApiOld, PSrcApiV1, PSrcApiWin, PLib, PS}

\* the folders a scope of the settings may list
ScopeFolders == {PSrc, PSrcApi, PSrcApiWin, PLib}

\* the longest folder list of a scope of the settings
MaxFolders == 2

FolderLists == UNION {[1..n -> ScopeFolders] : n \in 0..MaxFolders}

\* s.replace(/\\/g, "/")
Normalize(s) == [i \in 1..Len(s) |-> IF s[i] = "\\" THEN "/" ELSE s[i]]

\* a startsWith that leaves out the last character of the prefix, the separator
StartsWithName(s, prefix) ==
    /\ Len(prefix) >= 1
    /\ Len(prefix) - 1 <= Len(s)
    /\ SubSeq(s, 1, Len(prefix) - 1) = SubSeq(prefix, 1, Len(prefix) - 1)

\* s.startsWith(prefix)
StartsWith(s, prefix) == Len(prefix) <= Len(s) /\ SubSeq(s, 1, Len(prefix)) = prefix

RECURSIVE showFrom(_, _, _)
\* the loop over scopeFolders, from the i-th folder on
showFrom(folders, i, relativePath) ==
    IF i > Len(folders) THEN FALSE
    ELSE LET normalizedFolder == Normalize(folders[i])
             normalizedPath == Normalize(relativePath)
         IN  IF \/ normalizedPath = normalizedFolder
                \/ StartsWith(normalizedPath, normalizedFolder \o <<"/">>)
               THEN TRUE
             ELSE IF StartsWith(normalizedFolder, normalizedPath \o <<"/">>) THEN TRUE
             ELSE showFrom(folders, i + 1, relativePath)

\* a filter that shows nothing when no scope is active
shouldShowEntryScoped(relativePath, active, sc) ==
    IF Spread(sc, active).folders = None THEN Some(FALSE)
    ELSE Some(showFrom(sc[active].folders[1], 1, relativePath))

\* shouldShowEntry(relativePath, activeScope, scopes): Some(true/false), or None
\* when it throws (scopeFolders is undefined and is not iterable)
shouldShowEntry(relativePath, active, sc) ==
    IF active = NoScope \/ ~Truthy(sc, active) THEN Some(TRUE)
    ELSE IF Spread(sc, active).folders = None THEN None
    ELSE Some(showFrom(sc[active].folders[1], 1, relativePath))

\* _readDirectory asks whether the entry at relativePath is shown
shouldShow(relativePath) ==
    /\ shown' = Some([path |-> relativePath,
                      show |-> shouldShowEntry(relativePath, activeScope, scopes)])
    /\ UNCHANGED <<store, invoked, flows, held, disk, workspaceFolders, listed, reading>>

-----------------------------------------------------------------------------
(* The disk and the workspace, as the fs and path modules show them. *)

\* the names of the entries
NGit == <<".", "g", "i", "t">>

NNodeModules == <<"n", "o", "d", "e", "_", "m", "o", "d", "u", "l", "e", "s">>

NSrc == <<"s", "r", "c">>

NLib == <<"l", "i", "b">>

NApi == <<"a", "p", "i">>

NComponents == <<"c", "o", "m", "p", "o", "n", "e", "n", "t", "s">>

NPages == <<"p", "a", "g", "e", "s">>

NV1 == <<"v", "1">>

NDeep == <<"d", "e", "e", "p">>

NHooks == <<"h", "o", "o", "k", "s">>

NPkg == <<"p", "k", "g">>

NEnv == <<".", "e", "n", "v">>

NAJs == <<"a", ".", "j", "s">>

NBJs == <<"b", ".", "j", "s">>

NMainJs == <<"m", "a", "i", "n", ".", "j", "s">>

NAuthJs == <<"a", "u", "t", "h", ".", "j", "s">>

NHeaderJs == <<"h", "e", "a", "d", "e", "r", ".", "j", "s">>

\* workspaceFolder.uri.fsPath of the folders a workspace may have
Ws == <<"/", "w", "s">>

WsOld == <<"/", "w", "s", "-", "o", "l", "d">>

\* relative paths a scope of the settings may list besides those above: two
\* folders of src, a folder that is not on the disk, a file
PSrcComponents == <<"s", "r", "c", "/", "c", "o", "m", "p", "o", "n", "e", "n", "t", "s">>

PSrcPages == <<"s", "r", "c", "/", "p", "a", "g", "e", "s">>

PGone == <<"g", "o", "n", "e">>

PAJs == <<"a", ".", "j", "s">>

\* a Dirent of readdir(..., {withFileTypes: true})
Dir(name) == [name |-> name, isDirectory |-> TRUE]

File(name) == [name |-> name, isDirectory |-> FALSE]

\* path.join(dir, name), for a name that is one component
pathJoin(dir, name) == dir \o <<"/">> \o name

\* the components of a POSIX path
RECURSIVE split(_, _)
split(s, cur) ==
    IF s = <<>> THEN <<cur>>
    ELSE IF Head(s) = "/" THEN <<cur>> \o split(Tail(s), <<>>)
    ELSE split(Tail(s), Append(cur, Head(s)))

\* parts.join(sep)
RECURSIVE joinWith(_, _)
joinWith(parts, sep) ==
    IF parts = <<>> THEN <<>>
    ELSE IF Len(parts) = 1 THEN parts[1]
    ELSE parts[1] \o sep \o joinWith(Tail(parts), sep)

\* the number of leading components two paths share
RECURSIVE common(_, _)
common(a, b) ==
    IF a = <<>> \/ b = <<>> \/ Head(a) # Head(b) THEN 0
    ELSE 1 + common(Tail(a), Tail(b))

\* path.relative(from, to) of two absolute paths: ".." for every component of
\* from the paths do not share, then the components of to they do not share
pathRelative(from, to) ==
    LET f == split(from, <<>>)
        t == split(to, <<>>)
        k == common(f, t)
    IN  joinWith([i \in 1..(Len(f) - k) |-> <<".", ".">>] \o SubSeq(t, k + 1, Len(t)), <<"/">>)

\* path.resolve(root, p), for a path p without "." and ".." components
pathResolve(root, p) == IF p # <<>> /\ Head(p) = "/" THEN p ELSE pathJoin(root, p)

\* the directories of the disk and what readdir gives for each, in the order
\* the disk gives it
Tree ==
    (Ws :> <<Dir(NGit), File(NAJs), Dir(NSrc), Dir(NNodeModules), Dir(NLib)>>)
    @@ (pathJoin(Ws, NGit) :> <<Dir(NHooks)>>)
    @@ (pathJoin(pathJoin(Ws, NGit), NHooks) :> <<>>)
    @@ (pathJoin(Ws, NNodeModules) :> <<Dir(NPkg)>>)
    @@ (pathJoin(pathJoin(Ws, NNodeModules), NPkg) :> <<>>)
    @@ (pathJoin(Ws, NLib) :> <<File(NEnv), File(NBJs)>>)
    @@ (pathJoin(Ws, PSrc) :> <<File(NMainJs), Dir(NPages), Dir(NApi), Dir(NComponents)>>)
    @@ (pathJoin(Ws, PSrcPages) :> <<>>)
    @@ (pathJoin(Ws, PSrcComponents) :> <<File(NHeaderJs)>>)
    @@ (pathJoin(Ws, PSrcApi) :> <<Dir(NV1), File(NAuthJs)>>)
    @@ (pathJoin(Ws, PSrcApiV1) :> <<Dir(NDeep)>>)
    @@ (pathJoin(pathJoin(Ws, PSrcApiV1), NDeep) :> <<>>)
    @@ (WsOld :> <<Dir(NSrc)>>)
    @@ (pathJoin(WsOld, PSrc) :> <<Dir(NComponents)>>)
    @@ (pathJoin(WsOld, PSrcComponents) :> <<>>)

\* the disk: its directories, and those of them that cannot be read
Disk(unreadable) == [tree |-> Tree, unreadable |-> unreadable]

\* the sets of directories that cannot be read
Unreadable == {{}, {Ws}, {pathJoin(Ws, PSrc)}, {pathJoin(Ws, PSrcApi)}}

\* vscode.workspace.workspaceFolders
WorkspaceFolders == {<<Ws>>, <<Ws, WsOld>>, <<WsOld, Ws>>}

\* the folder lists of the scopes of the settings
ListedFolders ==
    {<<PSrcComponents, PSrcPages>>, <<PSrcApi>>, <<PSrcComponents, PGone, PAJs>>, <<PLib, PSrc>>}

\* fs.promises.readdir(p, {withFileTypes: true}): Some(entries), None when it
\* rejects
readdir(d, p) == IF p \in DOMAIN d.tree /\ p \notin d.unreadable THEN Some(d.tree[p]) ELSE None

\* the paths of the files of the disk
filesOf(d) ==
    UNION {{pathJoin(p, d.tree[p][j].name) :
                j \in {k \in DOMAIN d.tree[p] : ~d.tree[p][k].isDirectory}} :
           p \in DOMAIN d.tree}

\* fs.promises.stat(p): Some(kind), None when it rejects
stat(d, p) ==
    IF p \in DOMAIN d.tree THEN Some("Directory")
    ELSE IF p \in filesOf(d) THEN Some("File")
    ELSE None

\* entry.isDirectory() ? vscode.FileType.Directory : vscode.FileType.File
fileType(entry) == IF entry.isDirectory THEN "Directory" ELSE "File"

\* the elements of a sequence
Range(s) == {s[i] : i \in DOMAIN s}

\* the characters of the paths, in the order of their code units
Alphabet ==
    <<"-", ".", "/", "0", "1", "2", "3", "4", "5", "6", "7", "8", "9", "\\", "_",
      "a", "b", "c", "d", "e", "f", "g", "h", "i", "j", "k", "l", "m",
      "n", "o", "p", "q", "r", "s", "t", "u", "v", "w", "x", "y", "z">>

codeUnit(c) == CHOOSE i \in 1..Len(Alphabet) : Alphabet[i] = c

\* a < b, the comparison of Array.prototype.sort without a comparator
RECURSIVE before(_, _)
before(a, b) ==
    IF b = <<>> THEN FALSE
    ELSE IF a = <<>> THEN TRUE
    ELSE IF Head(a) = Head(b) THEN before(Tail(a), Tail(b))
    ELSE codeUnit(Head(a)) < codeUnit(Head(b))

\* [...new Set(folders)].sort()
RECURSIVE sorted(_)
sorted(S) ==
    IF S = {} THEN <<>>
    ELSE LET m == CHOOSE x \in S : \A y \in S \ {x} : before(x, y)
         IN  <<m>> \o sorted(S \ {m})

-----------------------------------------------------------------------------
(* The folders offered to a scope: getAllWorkspaceFolders. *)

\* maxDepth = 3
maxDepth == 3

\* the depth test that lets one more level through
pastMaxDepth(currentDepth) == currentDepth > maxDepth

\* currentDepth >= maxDepth
atMaxDepth(currentDepth) == currentDepth >= maxDepth

\* an enumeration that takes every directory
wantedAny(item) == item.isDirectory

\* item.isDirectory() && !item.name.startsWith(".") && item.name !== "node_modules"
wanted(item) ==
    /\ item.isDirectory
    /\ ~StartsWith(item.name, <<".">>)
    /\ item.name # NNodeModules

\* a catch that throws again
caughtAgain(folders) == None

\* catch (error) { console.warn(...) } and then return folders: the call
\* resolves with the folders pushed before the error
caught(folders) == Some(folders)

RECURSIVE getDirectoriesRecursive(_, _, _, _)
RECURSIVE eachItem(_, _, _, _, _, _, _)
\* the loop over items from the i-th on, folders being what has been pushed
eachItem(d, dirPath, workspaceRoot, currentDepth, items, i, folders) ==
    IF i > Len(items) THEN Some(folders)
    ELSE IF wanted(items[i])
      THEN LET fullPath == pathJoin(dirPath, items[i].name)
               relativePath == pathRelative(workspaceRoot, fullPath)
               subFolders == getDirectoriesRecursive(d, fullPath, workspaceRoot, currentDepth + 1)
           IN  IF subFolders = None THEN caught(Append(folders, relativePath))
               ELSE eachItem(d, dirPath, workspaceRoot, currentDepth, items, i + 1,
                             Append(folders, relativePath) \o subFolders[1])
    ELSE eachItem(d, dirPath, workspaceRoot, currentDepth, items, i + 1, folders)

\* getDirectoriesRecursive(dirPath, workspaceRoot, maxDepth, currentDepth):
\* Some(folders), None if it rejected
getDirectoriesRecursive(d, dirPath, workspaceRoot, currentDepth) ==
    IF atMaxDepth(currentDepth) THEN Some(<<>>)
    ELSE LET items == readdir(d, dirPath)
         IN  IF items = None THEN caught(<<>>)
             ELSE eachItem(d, dirPath, workspaceRoot, currentDepth, items[1], 1, <<>>)

\* the loop over workspaceFolders from the i-th on
RECURSIVE eachWorkspaceFolder(_, _, _)
eachWorkspaceFolder(d, wf, i) ==
    IF i > Len(wf) THEN Some(<<>>)
    ELSE LET relativeFolders == getDirectoriesRecursive(d, wf[i], wf[i], 0)
             rest == eachWorkspaceFolder(d, wf, i + 1)
         IN  IF relativeFolders = None \/ rest = None THEN None
             ELSE Some(relativeFolders[1] \o rest[1])

\* getAllWorkspaceFolders(): Some(the sorted folders), None if it rejects
allWorkspaceFolders(d, wf) ==
    LET folders == eachWorkspaceFolder(d, wf, 1)
    IN  IF folders = None THEN None ELSE Some(sorted(Range(folders[1])))

-----------------------------------------------------------------------------
(* The listing of ScopeFileSystemProvider (src/unnamed/part_001). *)

\* the loop over workspaceFolders from the i-th on
RECURSIVE relativeFrom(_, _, _)
relativeFrom(wf, i, absolutePath) ==
    IF i > Len(wf) THEN absolutePath
    ELSE IF StartsWith(absolutePath, wf[i]) THEN pathRelative(wf[i], absolutePath)
    ELSE relativeFrom(wf, i + 1, absolutePath)

\* getRelativePath(absolutePath)
getRelativePath(absolutePath, wf) == relativeFrom(wf, 1, absolutePath)

\* the loop over entries from the i-th on: Some(result), None when
\* shouldShowEntry throws
RECURSIVE eachEntry(_, _, _, _, _, _)
eachEntry(entries, i, fsPath, active, sc, wf) ==
    IF i > Len(entries) THEN Some(<<>>)
    ELSE LET entry == entries[i]
             entryPath == pathJoin(fsPath, entry.name)
             relativePath == getRelativePath(entryPath, wf)
             show == shouldShowEntry(relativePath, active, sc)
             rest == eachEntry(entries, i + 1, fsPath, active, sc, wf)
         IN  IF show = None \/ rest = None THEN None
             ELSE IF show[1]
               THEN Some(<<[name |-> entry.name, type |-> fileType(entry)]>> \o rest[1])
             ELSE rest

\* _readDirectory(fsPath): Some(result), None when it throws FileNotFound
readDirectoryEntries(d, fsPath, active, sc, wf) ==
    LET entries == readdir(d, fsPath)
    IN  IF entries = None THEN None ELSE eachEntry(entries[1], 1, fsPath, active, sc, wf)

-----------------------------------------------------------------------------
(* The file explorer: FileExplorerTreeDataProvider. *)

\* new vscode.TreeItem(label, None): it has no name, no uri and no type
TreeItem(label) == [name |-> <<>>, uri |-> <<>>, type |-> "undefined", label |-> label]

\* { name, uri, type }
Element(name, uri, type) == [name |-> name, uri |-> uri, type |-> type, label |-> ""]

\* a.name.localeCompare(b.name): the names of the entries shown are made of
\* lowercase letters, digits and ".", which the collation orders as their
\* code units are
localeCompare(a, b) == IF a = b THEN 0 ELSE IF before(a, b) THEN -1 ELSE 1

\* the comparator of children.sort is negative
sortsFirst(a, b) ==
    IF a.type = b.type THEN localeCompare(a.name, b.name) < 0
    ELSE a.type = "Directory"

\* children.sort(...)
RECURSIVE sortChildren(_)
sortChildren(S) ==
    IF S = {} THEN <<>>
    ELSE LET m == CHOOSE x \in S : \A y \in S \ {x} : sortsFirst(x, y)
         IN  <<m>> \o sortChildren(S \ {m})

\* a test that takes whatever is on the disk
statExists(d, scopePath) == stat(d, scopePath) # None

\* stat = await fs.promises.stat(scopePath) did not throw and stat.isDirectory()
statIsDirectory(d, scopePath) == stat(d, scopePath) = Some("Directory")

\* the two loops of the root level, over the pairs of a scope folder and a
\* workspace folder from the k-th pair on
RECURSIVE rootItems(_, _, _, _)
rootItems(d, scopeFolders, wf, k) ==
    IF k >= Len(scopeFolders) * Len(wf) THEN <<>>
    ELSE LET scopeFolder == scopeFolders[(k \div Len(wf)) + 1]
             scopePath == pathResolve(wf[(k % Len(wf)) + 1], scopeFolder)
             rest == rootItems(d, scopeFolders, wf, k + 1)
         IN  IF statIsDirectory(d, scopePath)
               THEN <<Element(scopeFolder, scopePath, "Directory")>> \o rest
             ELSE rest

\* the children pushed for the entries of a directory
childrenOf(entries, fsPath) ==
    {Element(entries[i].name, pathJoin(fsPath, entries[i].name), fileType(entries[i])) :
        i \in {j \in DOMAIN entries :
                 ~(StartsWith(entries[j].name, <<".">>) \/ entries[j].name = NNodeModules)}}

\* FileExplorerTreeDataProvider.getChildren(element): Some(the list it resolves
\* with), None if it rejected; element is None at the root level
fileChildren(element, d, active, sc, wf) ==
    IF active = NoScope \/ ~Truthy(sc, active)
      THEN IF element = None THEN Some(<<TreeItem("No active scope")>>) ELSE Some(<<>>)
    ELSE IF Len(wf) = 0
      THEN IF element = None THEN Some(<<TreeItem("No workspace")>>) ELSE Some(<<>>)
    ELSE IF element = None
      THEN IF Spread(sc, active).folders = None THEN Some(<<TreeItem("Error loading files")>>)
           ELSE Some(rootItems(d, sc[active].folders[1], wf, 0))
    ELSE LET entries == readdir(d, element[1].uri)
         IN  IF entries = None THEN Some(<<TreeItem("Error loading files")>>)
             ELSE Some(sortChildren(childrenOf(entries[1], element[1].uri)))

\* the folder nodes the view may ask the children of
Elements ==
    {Element(split(p, <<>>)[Len(split(p, <<>>))], p, "Directory") : p \in DOMAIN Tree \ {Ws, WsOld}}

-----------------------------------------------------------------------------
(* The scope tree: ScopeTreeDataProvider. *)

ActiveMark == <<"●", " ">>

InactiveMark == <<"○", " ">>

\* a marker that is always the filled circle
isActiveAlways(scopeName, active) == TRUE

\* scopeName === activeScope
isActive(scopeName, active) == scopeName = active

\* `${n}`, for the lengths of the folder lists
digits(n) == <<<<"0">>, <<"1">>, <<"2">>, <<"3">>, <<"4">>>>[n + 1]

\* the item of a scope
scopeItem(scopeName, scope, active) ==
    [label |-> (IF isActive(scopeName, active) THEN ActiveMark ELSE InactiveMark) \o scopeName,
     contextValue |-> "scope",
     description |-> IF scope.description # None /\ scope.description[1] # <<>>
                       THEN scope.description[1]
                     ELSE digits(Len(scope.folders[1])) \o <<" ", "f", "o", "l", "d", "e", "r", "s">>,
     tooltip |-> joinWith(scope.folders[1], <<",", " ">>) \o <<"\n">>
                 \o (IF isActive(scopeName, active) THEN <<"(", "A", "c", "t", "i", "v", "e", ")">> ELSE <<"(", "I", "n", "a", "c", "t", "i", "v", "e", ")">>),
     iconPath |-> IF isActive(scopeName, active) THEN "folder-active" ELSE "folder"]

\* the item of a folder of a scope
folderItem(folder) ==
    [label |-> folder,
     contextValue |-> "folder",
     description |-> <<>>,
     tooltip |-> <<"F", "o", "l", "d", "e", "r", ":", " ">> \o folder,
     iconPath |-> "folder"]

\* the item shown when there is no scope
noScopesItem ==
    [label |-> <<"N", "o", " ", "s", "c", "o", "p", "e", "s", " ", "d", "e", "f", "i", "n", "e", "d">>,
     contextValue |-> "undefined",
     description |-> <<"C", "r", "e", "a", "t", "e", " ", "a", " ", "s", "c", "o", "p", "e", " ", "t", "o", " ", "g", "e", "t", " ", "s", "t", "a", "r", "t", "e", "d">>,
     tooltip |-> <<>>,
     iconPath |-> "info"]

\* the item of the catch
errorItem ==
    [label |-> <<"E", "r", "r", "o", "r", " ", "l", "o", "a", "d", "i", "n", "g", " ", "d", "a", "t", "a">>,
     contextValue |-> "undefined",
     description |-> <<>>,
     tooltip |-> <<>>,
     iconPath |-> "error"]

\* element.label.replace(/^[●○] /, "")
stripMark(label) ==
    IF Len(label) >= 2 /\ label[1] \in {"●", "○"} /\ label[2] = " "
      THEN SubSeq(label, 3, Len(label))
    ELSE label

\* the orders Object.keys(scopes) may have: the order in which the keys were
\* added, which the collection of the model does not keep
keyOrders(sc) ==
    {keys \in [1..Cardinality(DOMAIN sc) -> DOMAIN sc] :
        \A i, j \in DOMAIN keys : i # j => keys[i] # keys[j]}

\* ScopeTreeDataProvider.getChildren(element), keys being Object.keys(scopes);
\* element is None at the root level
scopeChildren(element, keys, active, sc) ==
    IF element = None
      THEN IF Len(keys) = 0 THEN <<noScopesItem>>
           ELSE IF \E i \in DOMAIN keys : sc[keys[i]].folders = None THEN <<errorItem>>
           ELSE [i \in DOMAIN keys |-> scopeItem(keys[i], sc[keys[i]], active)]
    ELSE LET scopeName == stripMark(element[1].label)
             scope == Spread(sc, scopeName)
         IN  IF Truthy(sc, scopeName) /\ scope.folders # None
               THEN [i \in DOMAIN scope.folders[1] |-> folderItem(scope.folders[1][i])]
             ELSE <<>>

\* the items of the tree the view may ask the children of
ScopeElements ==
    {[folderItem(PSrcApi) EXCEPT !.label = mark \o name, !.contextValue = "scope"] :
        mark \in {ActiveMark, InactiveMark}, name \in {<<"a">>, <<"b">>}}
    \cup {folderItem(PSrcApi)}

-----------------------------------------------------------------------------
(* The listings, as actions. *)

\* the folders are enumerated for a folder pick
getAllWorkspaceFolders ==
    /\ listed' = Some([op |-> "getAllWorkspaceFolders",
                       arg |-> None,
                       out |-> allWorkspaceFolders(disk, workspaceFolders)])
    /\ UNCHANGED <<store, invoked, flows, held, shown, disk, workspaceFolders, reading>>

\* readDirectory(uri) of the file system provider
readDirectory(fsPath) ==
    /\ listed' = Some([op |-> "readDirectory",
                       arg |-> Some(fsPath),
                       out |-> readDirectoryEntries(disk, fsPath, activeScope, scopes,
                                                    workspaceFolders)])
    /\ UNCHANGED <<store, invoked, flows, held, shown, disk, workspaceFolders, reading>>

\* getChildren(element) of the file explorer
FileExplorer_getChildren(element) ==
    /\ listed' = Some([op |-> "FileExplorer.getChildren",
                       arg |-> element,
                       out |-> fileChildren(element, disk, activeScope, scopes,
                                            workspaceFolders)])
    /\ UNCHANGED <<store, invoked, flows, held, shown, disk, workspaceFolders, reading>>

\* getChildren(element) of the scope tree
ScopeTree_getChildren(element) ==
    /\ \E keys \in keyOrders(scopes) :
         listed' = Some([op |-> "ScopeTree.getChildren",
                         arg |-> element,
                         out |-> Some(scopeChildren(element, keys, activeScope, scopes))])
    /\ UNCHANGED <<store, invoked, flows, held, shown, disk, workspaceFolders, reading>>

\* getChildren() at the root level, to its first await: it reads the active
\* scope and the collection, returns at once when it has no folder to look at,
\* and else keeps scopeFolders and rootItems while fs.promises.stat is pending
getChildrenStart ==
    /\ reading = None
    /\ LET returned(out) ==
               /\ listed' = Some([op |-> "FileExplorer.getChildren", arg |-> None, out |-> out])
               /\ UNCHANGED reading
       IN  IF activeScope = NoScope \/ ~Truthy(scopes, activeScope)
             THEN returned(Some(<<TreeItem("No active scope")>>))
           ELSE IF Len(workspaceFolders) = 0
             THEN returned(Some(<<TreeItem("No workspace")>>))
           ELSE IF Spread(scopes, activeScope).folders = None
             THEN returned(Some(<<TreeItem("Error loading files")>>))
           ELSE IF scopes[activeScope].folders[1] = <<>>
             THEN returned(Some(<<>>))
           ELSE /\ reading' = Some([activeScope |-> activeScope,
                                    scopeFolders |-> scopes[activeScope].folders[1],
                                    k |-> 0,
                                    rootItems |-> <<>>])
                /\ UNCHANGED listed
    /\ UNCHANGED <<store, invoked, flows, held, shown, disk, workspaceFolders>>

\* getChildren() at the root level, when the fs.promises.stat of the k-th pair
\* of a scope folder and a workspace folder settles: it pushes the item of a
\* directory, and returns rootItems after the last pair
getChildrenStat ==
    /\ reading # None
    /\ LET r == reading[1]
           wf == workspaceFolders
           scopeFolder == r.scopeFolders[(r.k \div Len(wf)) + 1]
           scopePath == pathResolve(wf[(r.k % Len(wf)) + 1], scopeFolder)
           rootItems_ == IF statIsDirectory(disk, scopePath)
                           THEN Append(r.rootItems, Element(scopeFolder, scopePath, "Directory"))
                         ELSE r.rootItems
       IN  IF r.k + 1 < Len(r.scopeFolders) * Len(wf)
             THEN /\ reading' = Some([r EXCEPT !.k = @ + 1, !.rootItems = rootItems_])
                  /\ UNCHANGED listed
           ELSE /\ reading' = None
                /\ listed' = Some([op |-> "FileExplorer.getChildren", arg |-> None,
                                   out |-> Some(rootItems_)])
    /\ UNCHANGED <<store, invoked, flows, held, shown, disk, workspaceFolders>>

-----------------------------------------------------------------------------
(* The specifications. *)

\* new ScopeManager(context) in a workspace without settings
Init ==
    /\ scopes = EmptyScopes
    /\ activeScope = NoScope
    /\ statusText = NoScopeText
    /\ cfgScopes = EmptyScopes
    /\ cfgActive = NoScope
    /\ cfgEvent = {}
    /\ clock = 0
    /\ invoked = 0
    /\ flows = [f \in Flows |-> Idle]
    /\ held = None
    /\ shown = None
    /\ disk = Disk({})
    /\ workspaceFolders = <<Ws>>
    /\ listed = None
    /\ reading = None

Answers == {None} \cup {Some(v) : v \in NameInputs}

Items == {None} \cup {Some(n) : n \in ItemNames}

Step(f, Oks, alone) ==
    \/ createScope(f, alone)
    \/ \E answer \in Answers : createName(f, answer)
    \/ \E sel \in Selections, ok \in Oks : createFolders(f, sel, ok)
    \/ \E answer \in {"Yes", "No", "undefined"}, ok \in Oks : createActivate(f, answer, ok)
    \/ \E item \in Items : editScope(f, item, alone)
    \/ \E item \in Items : deleteScope(f, item, alone)
    \/ \E answer \in Items : pickScope(f, answer)
    \/ \E answer \in {"Edit Name", "Edit Folders", "Edit Description", "undefined"} :
         editAction(f, answer)
    \/ \E answer \in Answers, ok \in Oks : editScopeName(f, answer, ok)
    \/ \E sel \in Selections, ok \in Oks : editScopeFolders(f, sel, ok)
    \/ \E answer \in {None} \cup {Some(d) : d \in DescriptionInputs}, ok \in Oks :
         editScopeDescription(f, answer, ok)
    \/ \E answer \in {"Delete", "Cancel", "undefined"}, ok \in Oks :
         deleteConfirm(f, answer, ok)
    \/ switchScope(f, alone)
    \/ \E answer \in Items \cup {Some(NoScope)}, ok \in Oks : switchPick(f, answer, ok)
    \/ \E ok \in Oks : clearActiveScope(f, ok, alone)
    \/ \E ok \in Oks : saveActiveScope(f, ok)
    \/ afterSave(f)
    \/ finish(f)

\* commands may be invoked while others are suspended at an await
Next == (\E f \in Flows : Step(f, {TRUE}, FALSE)) \/ loadScopes

Spec == Init /\ [][Next]_vars

\* one command at a time, and a reader that holds the result of getScopes()
ReadNext ==
    (\E f \in Flows : Step(f, {TRUE}, TRUE)) \/ loadScopes \/ getScopes \/ dropScopes

ReadSpec == Init /\ [][ReadNext]_vars

\* the settings hold no scope, or the scope "a" with a folder list, active or not
FilterInit ==
    /\ \E folders \in FolderLists :
         scopes \in {EmptyScopes, createEntry(EmptyScopes, <<"a">>, folders, 1)}
    /\ activeScope \in {NoScope} \cup DOMAIN scopes
    /\ statusText = statusBarText(activeScope, scopes)
    /\ cfgScopes = scopes
    /\ cfgActive = activeScope
    /\ cfgEvent = {}
    /\ clock = 1
    /\ invoked = 0
    /\ flows = [f \in Flows |-> Idle]
    /\ held = None
    /\ shown = None
    /\ disk = Disk({})
    /\ workspaceFolders = <<Ws>>
    /\ listed = None
    /\ reading = None

FilterNext == \E relativePath \in Paths : shouldShow(relativePath)

\* the visibility filter applied to the entries of a workspace
FilterSpec == FilterInit /\ [][FilterNext]_vars

\* one command at a time, and a configuration write may be rejected
FaultNext == (\E f \in Flows : Step(f, BOOLEAN, TRUE)) \/ loadScopes

FaultSpec == Init /\ [][FaultNext]_vars

\* one command at a time: a command is invoked only when none is in progress
SeqNext == (\E f \in Flows : Step(f, {TRUE}, TRUE)) \/ loadScopes

SeqSpec == Init /\ [][SeqNext]_vars

\* the settings hold no scope, the scope "a", or the scopes "a" and "b"; the
\* active scope is none, "a" or "b", in the settings or not; the workspace has
\* one folder or two, and one directory of the disk may be unreadable
ListInit ==
    /\ \E folders \in ListedFolders, description \in DescriptionInputs :
         LET a == setDescription(createEntry(EmptyScopes, <<"a">>, folders, 1), <<"a">>,
                                 description)
         IN  scopes \in {EmptyScopes, a, createEntry(a, <<"b">>, <<PSrcApi>>, 2)}
    /\ activeScope \in {NoScope, <<"a">>, <<"b">>}
    /\ statusText = statusBarText(activeScope, scopes)
    /\ cfgScopes = scopes
    /\ cfgActive = activeScope
    /\ cfgEvent = {}
    /\ clock = 2
    /\ invoked = 0
    /\ flows = [f \in Flows |-> Idle]
    /\ held = None
    /\ shown = None
    /\ disk \in {Disk(unreadable) : unreadable \in Unreadable}
    /\ workspaceFolders \in WorkspaceFolders
    /\ listed = None
    /\ reading = None

ListNext ==
    \/ getAllWorkspaceFolders
    \/ \E fsPath \in DOMAIN Tree : readDirectory(fsPath)
    \/ \E element \in {None} \cup {Some(e) : e \in Elements} : FileExplorer_getChildren(element)
    \/ \E element \in {None} \cup {Some(e) : e \in ScopeElements} : ScopeTree_getChildren(element)

\* the listings of a workspace whose settings and disk do not change
ListSpec == ListInit /\ [][ListNext]_vars

\* the settings hold the scopes "a" and "b", one of them active or none, in a
\* workspace of one folder or two
StaleInit ==
    /\ \E folders \in ListedFolders :
         scopes = createEntry(createEntry(EmptyScopes, <<"a">>, folders, 1), <<"b">>,
                              <<PSrcApi>>, 2)
    /\ activeScope \in {NoScope, <<"a">>, <<"b">>}
    /\ statusText = statusBarText(activeScope, scopes)
    /\ cfgScopes = scopes
    /\ cfgActive = activeScope
    /\ cfgEvent = {}
    /\ clock = 2
    /\ invoked = 0
    /\ flows = [f \in Flows |-> Idle]
    /\ held = None
    /\ shown = None
    /\ disk = Disk({})
    /\ workspaceFolders \in WorkspaceFolders
    /\ listed = None
    /\ reading = None

StaleNext ==
    \/ \E f \in Flows :
         \/ switchScope(f, TRUE)
         \/ \E answer \in Items \cup {Some(NoScope)} : switchPick(f, answer, TRUE)
         \/ clearActiveScope(f, TRUE, TRUE)
         \/ saveActiveScope(f, TRUE)
         \/ afterSave(f)
         \/ finish(f)
    \/ loadScopes
    \/ getChildrenStart
    \/ getChildrenStat

\* the root of the file explorer is listed while the user switches the scope
StaleSpec == StaleInit /\ [][StaleNext]_vars

-----------------------------------------------------------------------------
(* Properties. *)

\* no command is in progress
Quiescent == \A f \in Flows : flows[f].pc = "idle"

\* the step is one of flow f
StepOf(f) == flows'[f] # flows[f]

\* flow f has completed the method having saved its mutation
Completed(f, method) ==
    /\ flows[f].pc = "done"
    /\ flows[f].method = method
    /\ flows[f].res = "ok"

\* C1: whenever every invoked operation has completed, the active scope
\* reference is null or names a scope of the collection.
C1_ActiveNeverDangling ==
    Quiescent => (activeScope = NoScope \/ activeScope \in DOMAIN scopes)

\* C2: when a confirmed deleteScope(N) of the active scope N completes, N is not
\* in the collection and the active scope reference is null.
C2_DeleteActiveClears ==
    \A f \in Flows :
        (Completed(f, "deleteScope") /\ flows[f].wasActive)
            => (flows[f].name \notin DOMAIN scopes /\ activeScope = NoScope)

\* C3: a rename old -> new (old present, new absent) leaves the active scope
\* reference alone when old is not the active scope, and when old is the active
\* scope the reference is new once the rename has completed.
C3_RenameFollowsActive ==
    [][\A f \in Flows :
        /\ (/\ flows[f].pc = "newName"
            /\ flows'[f].pc = "save1"
            /\ activeScope # flows[f].name) => activeScope' = activeScope
        /\ (/\ StepOf(f)
            /\ Completed(f, "editScopeName")'
            /\ flows'[f].wasActive) => activeScope' = flows'[f].arg]_vars

\* C4: a rename old -> new of a present scope to an absent name stores under new
\* the folders, description and creation time old had, removes old, and leaves
\* every other scope as it was.
C4_RenameKeepsEntry ==
    [][\A f \in Flows :
        (/\ flows[f].pc = "newName"
         /\ flows'[f].pc = "save1"
         /\ flows[f].name \in DOMAIN scopes
         /\ flows'[f].arg \notin DOMAIN scopes)
            => /\ DOMAIN scopes' = (DOMAIN scopes \ {flows[f].name}) \cup {flows'[f].arg}
               /\ scopes'[flows'[f].arg] = scopes[flows[f].name]
               /\ \A m \in DOMAIN scopes \ {flows[f].name} : scopes'[m] = scopes[m]
               /\ cfgScopes' = scopes']_vars

\* a rename has been applied, to a scope that is not the only one of the
\* collection, and the scope is under its new name with its folders
C4_Witness ==
    \E f \in Flows :
        /\ flows[f].pc = "save1"
        /\ flows[f].method = "editScopeName"
        /\ flows[f].arg \in DOMAIN scopes
        /\ flows[f].name \notin DOMAIN scopes
        /\ scopes[flows[f].arg].folders # None
        /\ Cardinality(DOMAIN scopes) = 2

\* C5: createScope never replaces an existing scope: the input box does not
\* accept the name of an existing scope, and when the name is in the collection
\* at the moment the flow would store its scope, the flow fails and the
\* collection is unchanged.
C5_CreateNeverOverwrites ==
    [][\A f \in Flows :
        /\ (/\ flows[f].pc = "name"
            /\ flows'[f].pc = "folders") => flows'[f].name \notin DOMAIN scopes
        /\ (/\ flows[f].pc = "folders"
            /\ flows[f].method = "createScope"
            /\ flows[f].name \in DOMAIN scopes
            /\ StepOf(f)) => (scopes' = scopes /\ flows'[f].pc = "done")]_vars

\* C6: a submitted name that is not blank and not in the collection is accepted,
\* and with a non-empty selection F the flow stores exactly
\* {folders: F, description: ""} under it, leaves the other scopes and the
\* active scope reference as they were, and changes the reference only when the
\* user answers Yes.
C6_CreateSucceeds ==
    [][\A f \in Flows :
        /\ \A v \in NameInputs :
             (/\ Trim(v) # <<>>
              /\ v \notin DOMAIN scopes
              /\ createName(f, Some(v))) => flows'[f].pc = "folders"
        /\ \A sel \in Selections :
             (/\ ~noFoldersCreate(sel)
              /\ flows[f].name \notin DOMAIN scopes
              /\ createFolders(f, sel, TRUE))
                => /\ DOMAIN scopes' = DOMAIN scopes \cup {flows[f].name}
                   /\ scopes'[flows[f].name].folders = sel
                   /\ scopes'[flows[f].name].description = Some(<<>>)
                   /\ \A m \in DOMAIN scopes : scopes'[m] = scopes[m]
                   /\ activeScope' = activeScope
        /\ (/\ flows[f].pc = "activate"
            /\ StepOf(f)
            /\ activeScope' # activeScope) => activeScope' = flows[f].name]_vars

\* C7: a name that is empty after trimming is not accepted by createScope or
\* editScopeName: the input box stays open with its message, and the
\* collection, the active scope reference and the settings are unchanged,
\* nothing is written and no notification fires.
C7_BlankNameRejected ==
    [][\A f \in Flows, v \in NameInputs :
        (/\ Trim(v) = <<>>
         /\ \/ createName(f, Some(v))
            \/ \E ok \in BOOLEAN : editScopeName(f, Some(v), ok))
            => /\ UNCHANGED store
               /\ flows'[f].pc = flows[f].pc
               /\ flows'[f].msg = Some("Scope name cannot be empty")
               /\ flows'[f].writes = flows[f].writes
               /\ flows'[f].fired = flows[f].fired]_vars

\* createScope and editScopeName both show "Scope name cannot be empty"
C7_Witness ==
    \E f, g \in Flows :
        /\ flows[f].pc = "name"
        /\ flows[f].msg = Some("Scope name cannot be empty")
        /\ flows[g].pc = "newName"
        /\ flows[g].msg = Some("Scope name cannot be empty")

\* C8: no key of the collection has leading or trailing whitespace.
C8_KeysTrimmed == \A n \in DOMAIN scopes : Trim(n) = n

\* C9: createScope with a cancelled or empty folder selection stores nothing,
\* writes nothing and fires no notification.
C9_NoFoldersNoScope ==
    [][\A f \in Flows, sel \in {None, Some(<<>>)} :
        (\E ok \in BOOLEAN : createFolders(f, sel, ok))
            => /\ UNCHANGED store
               /\ flows'[f].pc = "done"
               /\ flows'[f].res = "nofolders"
               /\ flows'[f].writes = 0
               /\ flows'[f].fired = 0]_vars

\* a createScope flow has ended at its folder selection, its name accepted
C9_Witness ==
    \E f \in Flows :
        /\ flows[f].pc = "done"
        /\ flows[f].op = "createScope"
        /\ flows[f].res = "nofolders"
        /\ flows[f].name # <<>>

\* every scope of the collection has at least one folder
AllHaveFolders(sc) ==
    \A n \in DOMAIN sc : sc[n].folders # None /\ Len(sc[n].folders[1]) >= 1

\* C10: editScopeFolders with an empty selection fails and leaves the stored
\* folder list as it was, so every scope always has at least one folder.
C10_EmptySelectionRejected ==
    [][/\ \A f \in Flows :
            (\E ok \in BOOLEAN : editScopeFolders(f, Some(<<>>), ok))
                => (scopes' = scopes /\ flows'[f].pc = "done")
       /\ AllHaveFolders(scopes) => AllHaveFolders(scopes')]_vars

\* C11: editScopeFolders changes only the folders of its scope and
\* editScopeDescription, which accepts every string, the empty one too, only the
\* description: the scope's other fields, the other scopes and the active scope
\* reference are as they were.
C11_EditsOneField ==
    [][\A f \in Flows :
        LET n == flows[f].name IN
        /\ \A sel \in Selections \ {None} :
             (n \in DOMAIN scopes /\ editScopeFolders(f, sel, TRUE))
                => /\ DOMAIN scopes' = DOMAIN scopes
                   /\ scopes'[n].folders = sel
                   /\ scopes'[n].description = scopes[n].description
                   /\ scopes'[n].created = scopes[n].created
                   /\ \A m \in DOMAIN scopes \ {n} : scopes'[m] = scopes[m]
                   /\ activeScope' = activeScope
        /\ \A d \in DescriptionInputs :
             (n \in DOMAIN scopes /\ editScopeDescription(f, Some(d), TRUE))
                => /\ DOMAIN scopes' = DOMAIN scopes
                   /\ scopes'[n].description = Some(d)
                   /\ scopes'[n].folders = scopes[n].folders
                   /\ scopes'[n].created = scopes[n].created
                   /\ \A m \in DOMAIN scopes \ {n} : scopes'[m] = scopes[m]
                   /\ activeScope' = activeScope]_vars

\* the folders of a scope that has a description have been replaced
C11_Witness ==
    \E f \in Flows :
        /\ flows[f].pc = "save1"
        /\ flows[f].method = "editScopeFolders"
        /\ flows[f].name \in DOMAIN scopes
        /\ scopes[flows[f].name].description = Some(<<"d">>)
        /\ scopes[flows[f].name].created # None

\* C12: an operation that has completed having saved its mutations has fired
\* one scopes-changed notification for each of them (saveScopes makes two
\* configuration writes for each mutation).
C12_OneNotificationEach ==
    \A f \in Flows :
        (flows[f].pc = "done" /\ flows[f].res = "ok")
            => 2 * flows[f].fired = flows[f].writes

\* flow f runs up to a config.update that is acknowledged (ok) or rejected
Saving(f, ok) ==
    \/ \E sel \in Selections : createFolders(f, sel, ok)
    \/ \E answer \in {"Yes", "No", "undefined"} : createActivate(f, answer, ok)
    \/ \E answer \in Answers : editScopeName(f, answer, ok)
    \/ \E sel \in Selections : editScopeFolders(f, sel, ok)
    \/ \E answer \in {None} \cup {Some(d) : d \in DescriptionInputs} :
         editScopeDescription(f, answer, ok)
    \/ \E answer \in {"Delete", "Cancel", "undefined"} : deleteConfirm(f, answer, ok)
    \/ \E answer \in Items \cup {Some(NoScope)} : switchPick(f, answer, ok)
    \/ clearActiveScope(f, ok, TRUE)
    \/ saveActiveScope(f, ok)

\* C13: when a configuration write of saveScopes is rejected, the operation ends
\* with the error, which its caller receives, and fires no scopes-changed
\* notification; the setting is not written.
C13_SaveFailurePropagates ==
    [][\A f \in Flows :
        (Saving(f, FALSE) /\ ~Saving(f, TRUE))
            => /\ flows'[f].pc = "done"
               /\ flows'[f].res = "error"
               /\ flows'[f].fired = flows[f].fired
               /\ flows'[f].writes = flows[f].writes
               /\ UNCHANGED <<cfgScopes, cfgActive, cfgEvent>>]_vars

\* a deleteScope has ended with the error of its first write: the scope is
\* deleted in memory, still in the setting, and no notification was fired
C13_Witness ==
    \E f \in Flows :
        /\ flows[f].pc = "done"
        /\ flows[f].op = "deleteScope"
        /\ flows[f].res = "error"
        /\ flows[f].fired = 0
        /\ flows[f].writes = 0
        /\ flows[f].name \in DOMAIN cfgScopes \ DOMAIN scopes

\* setActiveScope has returned at its "not found" message, nothing touched
NotFound(f) ==
    /\ UNCHANGED store
    /\ flows'[f].pc = "done"
    /\ flows'[f].res = "notfound"
    /\ flows'[f].fired = flows[f].fired
    /\ flows'[f].writes = flows[f].writes

\* C14: setActiveScope with a name that is not in the collection (the scope a
\* flow created or was offered has since been deleted or renamed) fails: the
\* collection, the active scope reference and the settings are unchanged and
\* no notification fires.
C14_SetActiveNotFound ==
    [][\A f \in Flows :
        /\ (/\ flows[f].name \notin DOMAIN scopes
            /\ \E ok \in BOOLEAN : createActivate(f, "Yes", ok)) => NotFound(f)
        /\ \A n \in ItemNames :
             (/\ n \notin DOMAIN scopes
              /\ \E ok \in BOOLEAN : switchPick(f, Some(n), ok)) => NotFound(f)]_vars

\* a createScope flow answered Yes after its scope had been deleted
C14_Witness ==
    \E f \in Flows :
        /\ flows[f].pc = "done"
        /\ flows[f].op = "createScope"
        /\ flows[f].res = "notfound"
        /\ flows[f].name \notin DOMAIN scopes
        /\ activeScope # flows[f].name

C16_RenameToSelf ==
    [][\A f \in Flows :
        (\E ok \in BOOLEAN : editScopeName(f, Some(flows[f].name), ok))
            => /\ UNCHANGED store
               /\ flows'[f].pc = "done"
               /\ flows'[f].res = "noop"
               /\ flows'[f].writes = 0
               /\ flows'[f].fired = 0]_vars

\* a scope of the collection has been renamed to its own name
C16_Witness ==
    \E f \in Flows :
        /\ flows[f].pc = "done"
        /\ flows[f].method = "editScopeName"
        /\ flows[f].res = "noop"
        /\ flows[f].name \in DOMAIN scopes
        /\ cfgScopes = scopes

\* C17: a rename to another name that is in the collection when the input is
\* submitted is not applied: the input box shows "Scope name already exists",
\* the scope under that name is not overwritten and the old name is not removed.
C17_RenameDuplicate ==
    [][\A f \in Flows, v \in NameInputs :
        (/\ v # flows[f].name
         /\ v \in DOMAIN scopes
         /\ \E ok \in BOOLEAN : editScopeName(f, Some(v), ok))
            => /\ UNCHANGED store
               /\ flows'[f].pc = flows[f].pc
               /\ flows'[f].msg = Some("Scope name already exists")
               /\ flows'[f].writes = flows[f].writes
               /\ flows'[f].fired = flows[f].fired]_vars

\* a rename flow shows "Scope name already exists" while its scope and another
\* one are in the collection
C17_Witness ==
    \E f \in Flows :
        /\ flows[f].pc = "newName"
        /\ flows[f].msg = Some("Scope name already exists")
        /\ flows[f].name \in DOMAIN scopes
        /\ Cardinality(DOMAIN scopes) = 2

\* C18: deleteScope of a name that is not in the collection returns without
\* changing anything; a confirmed deleteScope of a scope that is not the active
\* one removes that entry only and leaves the active scope reference as it was.
C18_DeleteFrame ==
    [][\A f \in Flows :
        /\ \A n \in ItemNames :
             (n \notin DOMAIN scopes /\ deleteScope(f, Some(n), FALSE))
                => /\ UNCHANGED store
                   /\ flows'[f].pc = "done"
                   /\ flows'[f].res = "notfound"
        /\ LET n == flows[f].name IN
             (/\ n \in DOMAIN scopes
              /\ activeScope # n
              /\ \E ok \in BOOLEAN : deleteConfirm(f, "Delete", ok))
                => /\ DOMAIN scopes' = DOMAIN scopes \ {n}
                   /\ \A m \in DOMAIN scopes \ {n} : scopes'[m] = scopes[m]
                   /\ activeScope' = activeScope]_vars

\* a scope has been deleted while another scope is the active one
C18_Witness ==
    \E f \in Flows :
        /\ flows[f].pc = "save1"
        /\ flows[f].method = "deleteScope"
        /\ ~flows[f].wasActive
        /\ flows[f].name \notin DOMAIN scopes
        /\ activeScope \in DOMAIN scopes

\* C19: what a reader got from getScopes() is a snapshot: it has the content it
\* had when the reader got it, whatever the operations that ran since.
C19_GetScopesSnapshot == held # None => Seen(held[1]) = held[1].at

\* the directories of a path: its components, split at either separator
RECURSIVE Components(_, _)
Components(s, cur) ==
    IF s = <<>> THEN <<cur>>
    ELSE IF Head(s) \in {"/", "\\"} THEN <<cur>> \o Components(Tail(s), <<>>)
    ELSE Components(Tail(s), Append(cur, Head(s)))

\* directory a is directory b or an ancestor of it
Contains(a, b) ==
    LET ca == Components(a, <<>>)
        cb == Components(b, <<>>)
    IN  Len(ca) <= Len(cb) /\ SubSeq(cb, 1, Len(ca)) = ca

\* the path is a folder of the list, a descendant of one or an ancestor of one
Visible(path, folders) ==
    \E i \in 1..Len(folders) : Contains(folders[i], path) \/ Contains(path, folders[i])

\* C20: with an active scope whose folders are S, shouldShowEntry(P) is true
\* exactly when P is a folder of S, a descendant of one, or an ancestor of one;
\* src/api-old is not shown for the folder src/api.
C20_VisibleIffRelated ==
    (shown # None /\ activeScope \in DOMAIN scopes)
        => LET S == scopes[activeScope].folders[1]
               P == shown[1].path
           IN  /\ shown[1].show = Some(Visible(P, S))
               /\ (P = PSrcApiOld /\ S = <<PSrcApi>>) => shown[1].show = Some(FALSE)

\* the filter has answered for src/api-old and an active scope of folder src/api
C20_Witness ==
    /\ shown # None
    /\ activeScope \in DOMAIN scopes
    /\ scopes[activeScope].folders = Some(<<PSrcApi>>)
    /\ shown[1].path = PSrcApiOld
    /\ shown[1].show = Some(FALSE)

\* C21: when there is no active scope, the visibility decision is true for
\* every path.
C21_NoActiveShowsAll ==
    (shown # None /\ activeScope = NoScope) => shown[1].show = Some(TRUE)

\* the filter has answered for src/api-old, the settings holding a scope and
\* no scope being active
C21_Witness ==
    /\ shown # None
    /\ activeScope = NoScope
    /\ DOMAIN scopes # {}
    /\ shown[1].path = PSrcApiOld
    /\ shown[1].show = Some(TRUE)

\* the last listing was made by op
Listed(op) == listed # None /\ listed[1].op = op

\* the name starts with "." or is node_modules
Hidden(name) == (name # <<>> /\ name[1] = ".") \/ name = NNodeModules

\* the path p below the directory r, relative to r
Below(r, p) == SubSeq(p, Len(r) + 2, Len(p))

\* the levels from the directory r down to the path p below it
Nested(r, p) == Len(Components(p, <<>>)) - Len(Components(r, <<>>))

\* no component of p below r is hidden
Clean(r, p) == \A c \in Range(Components(Below(r, p), <<>>)) : ~Hidden(c)

\* every directory from r down to the parent of p can be read
Readable(r, p) ==
    \A q \in DOMAIN disk.tree :
        (Contains(r, q) /\ Contains(q, p) /\ q # p) => q \notin disk.unreadable

\* the path is in a folder of the workspace
InWorkspace(path) == \E r \in Range(workspaceFolders) : Contains(r, path)

\* the path relative to the folder of the workspace it is in
RootRelative(path) ==
    Below(CHOOSE r \in Range(workspaceFolders) : Contains(r, path), path)

\* the names of the entries of a listing
Names(entries) == [i \in DOMAIN entries |-> entries[i].name]

\* C22: with an active scope S, readDirectory(D) lists exactly the children of D
\* whose path relative to their workspace folder is visible for the folders of
\* S; for the scopes [src/components, src/pages] (active) and [src/api], the
\* listing of src has components and pages and has not api.
C22_OverlayListsVisible ==
    (/\ Listed("readDirectory")
     /\ activeScope \in DOMAIN scopes
     /\ listed[1].out # None
     /\ InWorkspace(listed[1].arg[1]))
        => LET D == listed[1].arg[1]
               S == scopes[activeScope].folders[1]
               IsVisible(entry) == Visible(RootRelative(pathJoin(D, entry.name)), S)
               names == Names(listed[1].out[1])
           IN  /\ names = Names(SelectSeq(disk.tree[D], IsVisible))
               /\ (D = pathJoin(Ws, PSrc) /\ S = <<PSrcComponents, PSrcPages>>)
                    => (Range(names) = {NComponents, NPages})

\* C23: no entry whose name starts with "." or is node_modules is in the output
\* of the folder enumeration, of the child listing of the file explorer or of
\* readDirectory, a scope being active or not.
C23_HiddenNeverListed ==
    (listed # None /\ listed[1].out # None)
        => /\ Listed("getAllWorkspaceFolders")
                => \A x \in Range(listed[1].out[1]) :
                       \A c \in Range(Components(x, <<>>)) : ~Hidden(c)
           /\ (Listed("FileExplorer.getChildren") /\ listed[1].arg # None)
                => \A e \in Range(listed[1].out[1]) : ~Hidden(e.name)
           /\ Listed("readDirectory")
                => \A e \in Range(listed[1].out[1]) : ~Hidden(e.name)

\* C24: the enumeration returns every directory 1, 2 or 3 levels below a
\* workspace folder that has no hidden component and whose ancestors can be
\* read, and no directory 4 or more levels below it.
C24_DepthBound ==
    Listed("getAllWorkspaceFolders")
        => /\ listed[1].out # None
           /\ \A r \in Range(workspaceFolders), p \in DOMAIN disk.tree :
                (Contains(r, p) /\ p # r)
                    => /\ (Nested(r, p) \in 1..3 /\ Clean(r, p) /\ Readable(r, p))
                            => Below(r, p) \in Range(listed[1].out[1])
                       /\ Nested(r, p) >= 4 => Below(r, p) \notin Range(listed[1].out[1])

\* the folders of a disk that can all be read have been enumerated: src/api/v1,
\* 3 levels down, is returned and src/api/v1/deep is not
C24_Witness ==
    /\ Listed("getAllWorkspaceFolders")
    /\ disk.unreadable = {}
    /\ pathJoin(pathJoin(Ws, PSrcApiV1), NDeep) \in DOMAIN disk.tree
    /\ PSrcApiV1 \in Range(listed[1].out[1])
    /\ pathJoin(PSrcApiV1, NDeep) \notin Range(listed[1].out[1])

\* C25: the enumeration returns directories only, and no path that has a
\* component starting with "." or equal to node_modules.
C25_DirectoriesOnly ==
    Listed("getAllWorkspaceFolders")
        => /\ listed[1].out # None
           /\ \A x \in Range(listed[1].out[1]) :
                /\ \E r \in Range(workspaceFolders) : pathResolve(r, x) \in DOMAIN disk.tree
                /\ \A c \in Range(Components(x, <<>>)) : ~Hidden(c)

\* the folders of a disk that has files, .git/hooks and node_modules/pkg have
\* been enumerated, and lib and src are among them
C25_Witness ==
    /\ Listed("getAllWorkspaceFolders")
    /\ listed[1].out # None
    /\ {PLib, PSrc} \subseteq Range(listed[1].out[1])
    /\ pathJoin(Ws, NAJs) \in filesOf(disk)
    /\ pathJoin(pathJoin(Ws, NGit), NHooks) \in DOMAIN disk.tree
    /\ pathJoin(pathJoin(Ws, NNodeModules), NPkg) \in DOMAIN disk.tree

\* the folders the enumeration is to return: those at most maxDepth levels
\* below a workspace folder, without hidden component, reached through
\* directories that can be read
Reachable ==
    {Below(pair[1], pair[2]) :
        pair \in {q \in Range(workspaceFolders) \X DOMAIN disk.tree :
                    /\ Contains(q[1], q[2])
                    /\ q[2] # q[1]
                    /\ Nested(q[1], q[2]) <= maxDepth
                    /\ Clean(q[1], q[2])
                    /\ Readable(q[1], q[2])}}

\* C26: the enumeration does not fail when a directory cannot be read: that
\* directory contributes no descendant and every folder reached through
\* directories that can be read is returned.
C26_ReadFailureSwallowed ==
    Listed("getAllWorkspaceFolders")
        => /\ listed[1].out # None
           /\ Range(listed[1].out[1]) = Reachable

\* the folders have been enumerated with src/api unreadable: src/api and
\* src/components are returned, src/api/v1 is not
C26_Witness ==
    /\ Listed("getAllWorkspaceFolders")
    /\ disk.unreadable = {pathJoin(Ws, PSrcApi)}
    /\ workspaceFolders = <<Ws>>
    /\ listed[1].out # None
    /\ {PSrcApi, PSrcComponents} \subseteq Range(listed[1].out[1])
    /\ PSrcApiV1 \notin Range(listed[1].out[1])

\* C27: when the directory of a folder node cannot be read, getChildren of the
\* file explorer reports an error to its caller and returns no list.
C27_ReadFailureReported ==
    (/\ Listed("FileExplorer.getChildren")
     /\ listed[1].arg # None
     /\ activeScope \in DOMAIN scopes
     /\ readdir(disk, listed[1].arg[1].uri) = None)
        => listed[1].out = None

\* C28: when no scope is active, or the active scope is not in the collection,
\* getChildren of the file explorer returns no item, at the root level and for
\* every element.
C28_NoActiveEmptyTree ==
    (/\ Listed("FileExplorer.getChildren")
     /\ (activeScope = NoScope \/ activeScope \notin DOMAIN scopes))
        => listed[1].out = Some(<<>>)

C31_PersistedEqualsMemory ==
    \A f \in Flows :
        (flows[f].pc = "done" /\ flows[f].res = "ok")
            => (cfgScopes = scopes /\ cfgActive = activeScope)

\* a createScope answered Yes has completed: the scope is stored and active,
\* in memory and in the settings
C31_Witness ==
    \E f \in Flows :
        /\ Completed(f, "setActiveScope")
        /\ flows[f].op = "createScope"
        /\ activeScope = flows[f].name
        /\ cfgActive = flows[f].name
        /\ flows[f].name \in DOMAIN cfgScopes

\* C32: when a mutating operation has completed, the status bar shows the name
\* of the active scope if the active scope is a scope of the collection and
\* "No Scope" if it is not.
C32_StatusBarAgrees ==
    \A f \in Flows :
        (flows[f].pc = "done" /\ flows[f].res = "ok")
            => statusText = (IF activeScope \in DOMAIN scopes THEN activeScope ELSE NoScopeText)

\* the active scope has been deleted and the status bar shows "No Scope"
C32_Witness ==
    \E f \in Flows :
        /\ Completed(f, "deleteScope")
        /\ flows[f].wasActive
        /\ statusText = NoScopeText

\* C33: when a delete or a rename of the active scope has completed, the active
\* scope is the value the operation set, in memory and in the settings: null
\* after the delete, the new name after the rename, whatever the configuration
\* listener did between the two writes of saveScopes.
C33_ListenerDoesNotDisturb ==
    \A f \in Flows :
        /\ (Completed(f, "deleteScope") /\ flows[f].wasActive)
              => (activeScope = NoScope /\ cfgActive = NoScope)
        /\ (Completed(f, "editScopeName") /\ flows[f].wasActive)
              => (activeScope = flows[f].arg /\ cfgActive = flows[f].arg)

\* C34: editScopeName for a name that is not in the collection (its scope was
\* deleted while the input box was open) fails: it stores nothing and the
\* collection is unchanged.
C34_RenameAbsentFails ==
    [][\A f \in Flows :
        (/\ flows[f].pc = "newName"
         /\ StepOf(f)
         /\ flows[f].name \notin DOMAIN scopes)
            => (scopes' = scopes /\ flows'[f].pc # "save1")]_vars

\* C35: from the moment a rename is applied the collection has exactly one of
\* the old name and the new name.
C35_RenameNeverHalfApplied ==
    \A f \in Flows :
        (flows[f].method = "editScopeName" /\ flows[f].arg # <<>>)
            => ((flows[f].name \in DOMAIN scopes) # (flows[f].arg \in DOMAIN scopes))

\* a rename has been applied and its flow is in saveScopes: the new name is in
\* the collection and the old name is not
C35_Witness ==
    \E f \in Flows :
        /\ flows[f].method = "editScopeName"
        /\ flows[f].pc \in {"save1", "save2"}
        /\ flows[f].arg \in DOMAIN scopes
        /\ flows[f].name \notin DOMAIN scopes
        /\ scopes[flows[f].arg].folders # None

\* C36: a flow fires the scopes-changed notification only when saveScopes has
\* returned: both writes of the mutation are acknowledged and the settings hold
\* what is in memory.
C36_FiresAfterSave ==
    [][\A f \in Flows :
        flows'[f].fired > flows[f].fired
            => /\ flows[f].pc = "save2"
               /\ flows[f].writes = 2 * flows'[f].fired
               /\ cfgScopes' = scopes'
               /\ cfgActive' = activeScope']_vars

\* a createScope answered Yes has fired twice, after its second and its fourth
\* write
C36_Witness ==
    \E f \in Flows :
        /\ flows[f].op = "createScope"
        /\ flows[f].fired = 2
        /\ flows[f].writes = 4

\* C37: when a configuration write of saveScopes is rejected, the collection
\* and the active scope in memory are what they were before the operation.
C37_FailedWriteNotCommitted ==
    [][\A f \in Flows :
        (Saving(f, FALSE) /\ flows'[f].res = "error")
            => (scopes' = scopes /\ activeScope' = activeScope)]_vars

\* C38: a listing of the root of the file explorer that returns was started
\* under the scope that is active when it returns: its items are not those of
\* the folders of a scope that stopped being the active one while the listing
\* awaited the disk.
C38_StaleListingDiscarded ==
    [][(reading # None /\ reading' = None)
          => /\ reading[1].activeScope = activeScope
             /\ listed'[1].out = fileChildren(None, disk, activeScope, scopes,
                                              workspaceFolders)]_vars

====
